---- MODULE Spec2Model ----
(***************************************************************************)
(* State-machine model of MemoryBenchmark (src/src/memory_benchmark.cpp)   *)
(* and of the Timer it uses (src/core/src/timer.cpp).                      *)
(*                                                                         *)
(* Representation of numbers.  A C++ double is held as an exact rational   *)
(* [num, den] in lowest terms; den = 0 stands for the result of a division *)
(* by zero (inf / NaN).  A duration in seconds is held as its count of     *)
(* nanoseconds, i.e. as the numerator of the quotient by 1'000'000'000     *)
(* that Timer::elapsed_seconds forms; max_duration_seconds is held in the  *)
(* same unit.  A standard deviation is held as the radicand of its square  *)
(* root.  throughput_mbps is the quotient of the bytes processed by the    *)
(* elapsed time and by 1024 * 1024, the elapsed time being in the unit of  *)
(* every duration of the model.                                            *)
(***************************************************************************)
EXTENDS Integers, Sequences, FiniteSets, TLC

\* ---- bounds of the model ------------------------------------------------
MaxBuffer == 1
MaxIterations == 2
MaxRuns == 2
MaxDuration == 2
MaxTick == 1
MaxSessionRuns == 2
MaxFaults == 2
MaxClock == 5
MaxTimerStarts == 2
MaxSamples == 3
MaxLatency == 2
MaxNetworkIterations == 2
MaxPayload == 3
MaxSendRetries == 1
MaxInterrupts == 1
MaxAnyBuffer == 2

\* ---- program constants --------------------------------------------------
ByteMask == 255

\* lines 108 and 229: 1024.0 * 1024.0
BytesPerMegabyte == 1048576

BufferSizes == (0..MaxBuffer) \cup {ByteMask + 2}
IterationCounts == 0..MaxIterations
RunCounts == 0..MaxRuns
Durations == (-1)..MaxDuration

VARIABLES pc, call, now, buffer, rwb, vc, rc, ret, prev, allocations,
          timer_starts, cycles, cycle_ops, divisors, mismatches,
          run_extremes, entry_buffer, timer, last_start, query, stat_call,
          main, net

\* a Timer object used on its own, the clock reading of its latest start()
\* and the latest elapsed query made on it
timer_vars == <<timer, last_start, query>>

\* a call of calculate_statistics on its own, the main function of the
\* program, and a NetworkBenchmark::run
unit_vars == <<stat_call, main, net>>

vars == <<pc, call, now, buffer, rwb, vc, rc, ret, prev, allocations,
          timer_starts, cycles, cycle_ops, divisors, mismatches,
          run_extremes, entry_buffer, timer, last_start, query, stat_call,
          main, net>>

\* ---- double arithmetic as exact rationals -------------------------------
Abs(x) == IF x < 0 THEN -x ELSE x

RECURSIVE GCD(_, _)
GCD(a, b) == IF b = 0 THEN a ELSE GCD(b, a % b)

\* Every operator takes its arguments through a function, so that each
\* argument is a value computed once.
Rational == [num : Int, den : Int]

Rat(n, d) ==
    LET F[x \in Int, y \in Int] ==
            IF y = 0 THEN [num |-> x, den |-> 0]
            ELSE LET s == IF y < 0 THEN -1 ELSE 1
                     g == GCD(Abs(x), Abs(y))
                 IN  [num |-> (s * x) \div g, den |-> (s * y) \div g]
    IN  F[n, d]

FromInt(n) == [num |-> n, den |-> 1]
Zero == FromInt(0)

RAdd(a, b) ==
    LET F[x \in Rational, y \in Rational] ==
            Rat(x.num * y.den + y.num * x.den, x.den * y.den)
    IN  F[a, b]

RSub(a, b) ==
    LET F[x \in Rational, y \in Rational] ==
            Rat(x.num * y.den - y.num * x.den, x.den * y.den)
    IN  F[a, b]

RMul(a, b) ==
    LET F[x \in Rational, y \in Rational] ==
            Rat(x.num * y.num, x.den * y.den)
    IN  F[a, b]

RDiv(a, b) ==
    LET F[x \in Rational, y \in Rational] ==
            Rat(x.num * y.den, x.den * y.num)
    IN  F[a, b]

RLess(a, b) ==
    LET F[x \in Rational, y \in Rational] ==
            x.den # 0 /\ y.den # 0 /\ x.num * y.den < y.num * x.den
    IN  F[a, b]

RLeq(a, b) ==
    LET F[x \in Rational, y \in Rational] ==
            x.den # 0 /\ y.den # 0 /\ x.num * y.den <= y.num * x.den
    IN  F[a, b]

Sqrt(r) == [radicand |-> r]

RSum(s) ==
    LET F[q \in Seq(Rational)] ==
            IF q = <<>> THEN Zero ELSE RAdd(Head(q), F[Tail(q)])
    IN  F[s]

\* ---- Timer --------------------------------------------------------------
Timer == [start_time_ |-> 0, started_ |-> FALSE]

\* mutant: start() does not read the clock
start_AtEpoch(clock) == [start_time_ |-> 0, started_ |-> TRUE]

start(clock) == [start_time_ |-> clock, started_ |-> TRUE]

elapsed_nanoseconds(t, clock) ==
    IF ~t.started_ THEN 0 ELSE clock - t.start_time_

elapsed_seconds(t, clock) ==
    IF ~t.started_ THEN Zero ELSE FromInt(clock - t.start_time_)

\* line 49: the nanosecond count divided by 1'000'000.0
NanosPerMilli == 1000000

elapsed_milliseconds(t, clock) ==
    IF ~t.started_ THEN Zero ELSE Rat(clock - t.start_time_, NanosPerMilli)

\* steady_clock::now(): monotonic, two reads may return the same instant
ClockReads == now..(now + MaxTick)

\* ---- Results -------------------------------------------------------------
\* mutant: the rejected Results report a passed verification
ValueInitResults_Passed ==
    [buffer_size_bytes |-> 0,
     iterations |-> 0,
     timing |-> [min_latency_ns |-> Zero,
                 max_latency_ns |-> Zero,
                 avg_latency_ns |-> Zero,
                 total_time_seconds |-> Zero,
                 variance_ns |-> Zero,
                 std_deviation_ns |-> Sqrt(Zero),
                 sample_count |-> 0],
     throughput_mbps |-> Zero,
     verification_passed |-> TRUE,
     verification_errors |-> 0]

\* `Results results{}`: value-initialisation zeroes every member
ValueInitResults ==
    [buffer_size_bytes |-> 0,
     iterations |-> 0,
     timing |-> [min_latency_ns |-> Zero,
                 max_latency_ns |-> Zero,
                 avg_latency_ns |-> Zero,
                 total_time_seconds |-> Zero,
                 variance_ns |-> Zero,
                 std_deviation_ns |-> Sqrt(Zero),
                 sample_count |-> 0],
     throughput_mbps |-> Zero,
     verification_passed |-> FALSE,
     verification_errors |-> 0]

\* mutant: verification_passed is left as value-initialised
InitialResults_NotPassed(buffer_size_bytes, iterations) ==
    [ValueInitResults EXCEPT !.buffer_size_bytes = buffer_size_bytes,
                             !.iterations = iterations]

\* the explicit initialisation at the head of run_with_buffer and of
\* run_continuous
InitialResults(buffer_size_bytes, iterations) ==
    [ValueInitResults EXCEPT !.buffer_size_bytes = buffer_size_bytes,
                             !.iterations = iterations,
                             !.verification_passed = TRUE]

\* ---- pattern ------------------------------------------------------------
NewBuffer(size) == [j \in 0..(size - 1) |-> 0]

Pattern(j) == j % (ByteMask + 1)

\* mutant: the pattern is written one position off
write_pattern_Shifted(buf, size) ==
    [j \in DOMAIN buf |-> IF j < size THEN Pattern(j + 1) ELSE buf[j]]

\* mutant: the first byte is left as it was
write_pattern_SkipsFirst(buf, size) ==
    [j \in DOMAIN buf |-> IF 0 < j /\ j < size THEN Pattern(j) ELSE buf[j]]

write_pattern(buf, size) ==
    [j \in DOMAIN buf |-> IF j < size THEN Pattern(j) ELSE buf[j]]

\* mutant: the comparison starts at the second byte
verify_pattern_SkipsFirst(buf, size) ==
    Cardinality({j \in 1..(size - 1) : buf[j] # Pattern(j)})

verify_pattern(buf, size) ==
    Cardinality({j \in 0..(size - 1) : buf[j] # Pattern(j)})

\* ---- statistics ---------------------------------------------------------
Square(r) == RMul(r, r)

\* mutant: the population variance, divided by n
calculate_statistics_DividesByN(latencies, mean) ==
    LET n == Len(latencies)
        sum_squared_diff ==
            RSum([k \in 1..n |-> Square(RSub(latencies[k], mean))])
        variance == RDiv(sum_squared_diff, FromInt(n))
    IN  IF n = 0 \/ n = 1
        THEN [variance |-> Zero, std_deviation |-> Sqrt(Zero), divided_by |-> {}]
        ELSE [variance |-> variance,
              std_deviation |-> IF RLess(Zero, variance)
                                THEN Sqrt(variance) ELSE Sqrt(Zero),
              divided_by |-> {n}]

\* mutant: neither the early return nor the n > 1 test
calculate_statistics_NoShortCircuit(latencies, mean) ==
    LET n == Len(latencies)
        sum_squared_diff ==
            RSum([k \in 1..n |-> Square(RSub(latencies[k], mean))])
        variance == RDiv(sum_squared_diff, FromInt(n - 1))
    IN  [variance |-> variance,
         std_deviation |-> IF RLess(Zero, variance)
                           THEN Sqrt(variance) ELSE Sqrt(Zero),
         divided_by |-> {n - 1}]

calculate_statistics(latencies, mean) ==
    LET n == Len(latencies)
        sum_squared_diff ==
            RSum([k \in 1..n |-> Square(RSub(latencies[k], mean))])
        variance == RDiv(sum_squared_diff, FromInt(n - 1))
    IN  IF n = 0 \/ n = 1
        THEN [variance |-> Zero, std_deviation |-> Sqrt(Zero), divided_by |-> {}]
        ELSE IF n > 1
             THEN [variance |-> variance,
                   std_deviation |-> IF RLess(Zero, variance)
                                     THEN Sqrt(variance) ELSE Sqrt(Zero),
                   divided_by |-> {n - 1}]
             ELSE [variance |-> Zero, std_deviation |-> Sqrt(Zero),
                   divided_by |-> {}]

\* ---- frames of the functions in progress --------------------------------
NoCall == [op |-> "none", buffer_size_bytes |-> 0, iterations |-> 0,
           max_runs |-> 0, max_duration_seconds |-> Zero]

NoRwb == [results |-> ValueInitResults, total_timer |-> Timer,
          total_errors |-> 0, min_latency_ns |-> 0, max_latency_ns |-> 0,
          sum_latency_ns |-> 0, first_iteration |-> TRUE,
          latencies |-> <<>>, i |-> 0]

NoVc == [cycle_timer |-> Timer, errors |-> 0, cycle_latency_ns |-> 0]

NoRc == [aggregated_results |-> ValueInitResults, run_avg_latencies |-> <<>>,
         run_total_times |-> <<>>, total_errors |-> 0, completed_runs |-> 0,
         continuous_timer |-> Timer, elapsed |-> Zero,
         run_results |-> ValueInitResults]

\* the call made on the same MemoryBenchmark before the current one, and
\* what it returned
NoPrev == [op |-> "none", buffer_size_bytes |-> 0, iterations |-> 0,
           ret |-> ValueInitResults]

\* no start() yet on the Timer object, no query yet
NeverStarted == -1

NoQuery == [kind |-> "none", value |-> Zero, at |-> 0, since |-> NeverStarted]

NoStats == [latencies |-> <<>>, mean |-> Zero, called |-> FALSE,
            variance |-> Zero, std_deviation |-> Sqrt(Zero)]

NoMain == [pc |-> "not_started", run_benchmark |-> FALSE,
           continuous_mode |-> FALSE, run_cpu_benchmark |-> FALSE,
           run_network_benchmark |-> FALSE, host_empty |-> TRUE,
           network_iterations |-> 1, trace |-> <<>>, exit |-> "running"]

\* network_benchmark.cpp lines 34-49: the Results of run and the locals of
\* send_data and receive_data; server is the behaviour of the peer
NoNet == [pc |-> "not_started", server |-> "none", payload_size_bytes |-> 0,
          socket_open |-> FALSE, total_sent |-> 0, send_retries |-> 0,
          total_received |-> 0, recv_result |-> 0, recv_errno |-> "none",
          interrupts |-> 0,
          bytes_received |-> 0,
          connection_successful |-> FALSE,
          data_exchange_successful |-> FALSE,
          benchmark_successful |-> FALSE, error_message |-> ""]

\* the state of a MemoryBenchmark and of a Timer before any call
InitMemory ==
    /\ pc = "idle"
    /\ call = NoCall
    /\ now = 0
    /\ buffer = <<>>
    /\ rwb = NoRwb
    /\ vc = NoVc
    /\ rc = NoRc
    /\ ret = ValueInitResults
    /\ prev = NoPrev
    /\ allocations = 0
    /\ timer_starts = 0
    /\ cycles = 0
    /\ cycle_ops = <<>>
    /\ divisors = {}
    /\ mismatches = 0
    /\ run_extremes = <<>>
    /\ entry_buffer = <<>>
    /\ timer = Timer
    /\ last_start = NeverStarted
    /\ query = NoQuery

Init ==
    /\ InitMemory
    /\ stat_call = NoStats
    /\ main = NoMain
    /\ net = NoNet

\* ---- calls on a MemoryBenchmark ------------------------------------------
\* The first call is any call.  A call that was rejected for its
\* configuration may be followed by one more call, itself rejected.
Rejected == pc = "returned" /\ allocations = 0 /\ prev = NoPrev

FirstCall == pc = "idle"

CanCall == FirstCall \/ Rejected

Remember ==
    prev' = IF Rejected
            THEN [op |-> call.op,
                  buffer_size_bytes |-> call.buffer_size_bytes,
                  iterations |-> call.iterations, ret |-> ret]
            ELSE prev

\* ---- MemoryBenchmark::run -----------------------------------------------
\* mutant: a test that an unsigned size never satisfies
BufferSizeInvalid_Negative(buffer_size_bytes) == buffer_size_bytes < 0

BufferSizeInvalid(buffer_size_bytes) == buffer_size_bytes = 0

\* mutant: zero iterations are let through
IterationsInvalid_Never(iterations) == iterations < 0

IterationsInvalid(iterations) == iterations = 0

RunCall(buffer_size_bytes, iterations) ==
    [NoCall EXCEPT !.op = "run", !.buffer_size_bytes = buffer_size_bytes,
                   !.iterations = iterations]

\* lines 17-21: zero buffer size
RunRejectBufferSize ==
    /\ CanCall
    /\ Remember
    /\ \E buffer_size_bytes \in BufferSizes, iterations \in IterationCounts :
          /\ BufferSizeInvalid(buffer_size_bytes)
          /\ call' = RunCall(buffer_size_bytes, iterations)
    /\ ret' = ValueInitResults
    /\ pc' = "returned"
    /\ UNCHANGED <<timer_vars, unit_vars, entry_buffer, mismatches, run_extremes, now, buffer, rwb, vc, rc, allocations, timer_starts,
                   cycles, cycle_ops, divisors>>

\* lines 22-26: zero iterations
RunRejectIterations ==
    /\ CanCall
    /\ Remember
    /\ \E buffer_size_bytes \in BufferSizes, iterations \in IterationCounts :
          /\ ~BufferSizeInvalid(buffer_size_bytes)
          /\ IterationsInvalid(iterations)
          /\ call' = RunCall(buffer_size_bytes, iterations)
    /\ ret' = ValueInitResults
    /\ pc' = "returned"
    /\ UNCHANGED <<timer_vars, unit_vars, entry_buffer, mismatches, run_extremes, now, buffer, rwb, vc, rc, allocations, timer_starts,
                   cycles, cycle_ops, divisors>>

\* lines 28-32: allocate the buffer and enter run_with_buffer
RunAllocate ==
    /\ pc = "idle"
    /\ \E buffer_size_bytes \in BufferSizes, iterations \in IterationCounts :
          /\ ~BufferSizeInvalid(buffer_size_bytes)
          /\ ~IterationsInvalid(iterations)
          /\ call' = RunCall(buffer_size_bytes, iterations)
          /\ buffer' = NewBuffer(buffer_size_bytes)
    /\ allocations' = allocations + 1
    /\ pc' = "rwb_entry"
    /\ UNCHANGED <<timer_vars, unit_vars, entry_buffer, mismatches, run_extremes, prev, now, rwb, vc, rc, ret, timer_starts, cycles, cycle_ops,
                   divisors>>

\* ---- MemoryBenchmark::run_with_buffer -----------------------------------
\* lines 40-65: initialise results and locals, start the run's timer
RwbEntry ==
    /\ pc = "rwb_entry"
    /\ \E t \in ClockReads :
          /\ now' = t
          /\ rwb' = [NoRwb EXCEPT
                       !.results = InitialResults(call.buffer_size_bytes,
                                                  call.iterations),
                       !.total_timer = start(t)]
    /\ timer_starts' = timer_starts + 1
    /\ entry_buffer' = buffer
    /\ pc' = "rwb_loop"
    /\ UNCHANGED <<timer_vars, unit_vars, mismatches, run_extremes, prev, call, buffer, vc, rc, ret, allocations, cycles, cycle_ops,
                   divisors>>

\* mutant: one cycle more than asked for
LoopContinues_OffByOne(i, iterations) == i <= iterations

\* line 67: the loop condition i < iterations
LoopContinues(i, iterations) == i < iterations

\* mutant: the comparison of the minimum is inverted
TrackMin_Inverted(first_iteration, min_latency_ns, cycle_latency_ns) ==
    IF first_iteration THEN cycle_latency_ns
    ELSE IF cycle_latency_ns > min_latency_ns THEN cycle_latency_ns
         ELSE min_latency_ns

\* lines 74-85: incremental minimum and maximum
TrackMin(first_iteration, min_latency_ns, cycle_latency_ns) ==
    IF first_iteration THEN cycle_latency_ns
    ELSE IF cycle_latency_ns < min_latency_ns THEN cycle_latency_ns
         ELSE min_latency_ns

TrackMax(first_iteration, max_latency_ns, cycle_latency_ns) ==
    IF first_iteration THEN cycle_latency_ns
    ELSE IF cycle_latency_ns > max_latency_ns THEN cycle_latency_ns
         ELSE max_latency_ns

\* mutant: a cycle with mismatches ends the run
RwbAccumulate_StopOnError ==
    /\ pc = "rwb_accumulate"
    /\ rwb' = [rwb EXCEPT
                 !.total_errors = @ + vc.errors,
                 !.min_latency_ns = TrackMin(rwb.first_iteration, @,
                                             vc.cycle_latency_ns),
                 !.max_latency_ns = TrackMax(rwb.first_iteration, @,
                                             vc.cycle_latency_ns),
                 !.first_iteration = FALSE,
                 !.sum_latency_ns = @ + vc.cycle_latency_ns,
                 !.latencies = Append(@, FromInt(vc.cycle_latency_ns)),
                 !.i = IF vc.errors > 0 THEN call.iterations ELSE @ + 1]
    /\ vc' = NoVc
    /\ pc' = "rwb_loop"
    /\ UNCHANGED <<timer_vars, unit_vars, entry_buffer, mismatches, run_extremes, prev, call, now, buffer, rc, ret, allocations, timer_starts,
                   cycles, cycle_ops, divisors>>

\* mutant: total_errors holds the errors of the last cycle only
RwbAccumulate_OverwriteErrors ==
    /\ pc = "rwb_accumulate"
    /\ rwb' = [rwb EXCEPT
                 !.total_errors = vc.errors,
                 !.min_latency_ns = TrackMin(rwb.first_iteration, @,
                                             vc.cycle_latency_ns),
                 !.max_latency_ns = TrackMax(rwb.first_iteration, @,
                                             vc.cycle_latency_ns),
                 !.first_iteration = FALSE,
                 !.sum_latency_ns = @ + vc.cycle_latency_ns,
                 !.latencies = Append(@, FromInt(vc.cycle_latency_ns)),
                 !.i = @ + 1]
    /\ vc' = NoVc
    /\ pc' = "rwb_loop"
    /\ UNCHANGED <<timer_vars, unit_vars, entry_buffer, mismatches, run_extremes, prev, call, now, buffer, rc, ret, allocations, timer_starts,
                   cycles, cycle_ops, divisors>>

\* mutant: the run ends when the session's duration bound has passed
RwbAccumulate_StopOnDuration ==
    /\ pc = "rwb_accumulate"
    /\ rwb' = [rwb EXCEPT
                 !.total_errors = @ + vc.errors,
                 !.min_latency_ns = TrackMin(rwb.first_iteration, @,
                                             vc.cycle_latency_ns),
                 !.max_latency_ns = TrackMax(rwb.first_iteration, @,
                                             vc.cycle_latency_ns),
                 !.first_iteration = FALSE,
                 !.sum_latency_ns = @ + vc.cycle_latency_ns,
                 !.latencies = Append(@, FromInt(vc.cycle_latency_ns)),
                 !.i = IF /\ call.op = "run_continuous"
                         /\ RLess(Zero, call.max_duration_seconds)
                         /\ RLeq(call.max_duration_seconds,
                                 elapsed_seconds(rc.continuous_timer, now))
                      THEN call.iterations ELSE @ + 1]
    /\ vc' = NoVc
    /\ pc' = "rwb_loop"
    /\ UNCHANGED <<timer_vars, unit_vars, entry_buffer, mismatches, run_extremes, prev, call, now, buffer, rc, ret, allocations, timer_starts,
                   cycles, cycle_ops, divisors>>

\* lines 71-87 and the ++i of line 67, after verify_cycle has returned; the
\* locals of the loop body end with the iteration
RwbAccumulate ==
    /\ pc = "rwb_accumulate"
    /\ rwb' = [rwb EXCEPT
                 !.total_errors = @ + vc.errors,
                 !.min_latency_ns = TrackMin(rwb.first_iteration, @,
                                             vc.cycle_latency_ns),
                 !.max_latency_ns = TrackMax(rwb.first_iteration, @,
                                             vc.cycle_latency_ns),
                 !.first_iteration = FALSE,
                 !.sum_latency_ns = @ + vc.cycle_latency_ns,
                 !.latencies = Append(@, FromInt(vc.cycle_latency_ns)),
                 !.i = @ + 1]
    /\ vc' = NoVc
    /\ pc' = "rwb_loop"
    /\ UNCHANGED <<timer_vars, unit_vars, entry_buffer, mismatches, run_extremes, prev, call, now, buffer, rc, ret, allocations, timer_starts,
                   cycles, cycle_ops, divisors>>

\* lines 90-111: the Results of a run from its locals
RunResults(r, buffer_size_bytes, iterations, elapsed) ==
    LET avg_latency_ns == RDiv(FromInt(r.sum_latency_ns), FromInt(iterations))
        stats == calculate_statistics(r.latencies, avg_latency_ns)
        total_bytes_processed ==
            RMul(RMul(FromInt(buffer_size_bytes), FromInt(iterations)),
                 FromInt(3))
    IN  [buffer_size_bytes |-> r.results.buffer_size_bytes,
         iterations |-> r.results.iterations,
         timing |-> [min_latency_ns |-> FromInt(r.min_latency_ns),
                     max_latency_ns |-> FromInt(r.max_latency_ns),
                     avg_latency_ns |-> avg_latency_ns,
                     total_time_seconds |-> elapsed,
                     variance_ns |-> stats.variance,
                     std_deviation_ns |-> stats.std_deviation,
                     sample_count |-> iterations],
         throughput_mbps |-> RDiv(RDiv(total_bytes_processed, elapsed),
                                  FromInt(BytesPerMegabyte)),
         verification_passed |-> (r.total_errors = 0),
         verification_errors |-> r.total_errors]

\* lines 90-113: loop left, statistics computed, Results returned to the
\* caller (run returns them as its own, run_continuous aggregates them)
RwbFinish ==
    /\ pc = "rwb_loop"
    /\ ~LoopContinues(rwb.i, call.iterations)
    /\ \E t \in ClockReads :
          LET results == RunResults(rwb, call.buffer_size_bytes,
                                    call.iterations,
                                    elapsed_seconds(rwb.total_timer, t))
          IN  /\ now' = t
              /\ rwb' = [rwb EXCEPT !.results = results]
              /\ IF call.op = "run"
                 THEN /\ ret' = results
                      /\ pc' = "returned"
                      /\ rc' = rc
                 ELSE /\ rc' = [rc EXCEPT !.run_results = results]
                      /\ pc' = "rc_aggregate"
                      /\ ret' = ret
    /\ divisors' = divisors \cup
          calculate_statistics(rwb.latencies,
              RDiv(FromInt(rwb.sum_latency_ns),
                   FromInt(call.iterations))).divided_by
    /\ UNCHANGED <<timer_vars, unit_vars, entry_buffer, mismatches, run_extremes, prev, call, buffer, vc, allocations, timer_starts, cycles,
                   cycle_ops>>

\* ---- MemoryBenchmark::verify_cycle --------------------------------------
\* lines 67-70 and 279-280: next iteration, fresh cycle timer started
VerifyCycleStart ==
    /\ pc = "rwb_loop"
    /\ LoopContinues(rwb.i, call.iterations)
    /\ \E t \in ClockReads :
          /\ now' = t
          /\ vc' = [NoVc EXCEPT !.cycle_timer = start(t)]
    /\ timer_starts' = timer_starts + 1
    /\ cycles' = cycles + 1
    /\ cycle_ops' = <<>>
    /\ pc' = "vc_read"
    /\ UNCHANGED <<timer_vars, unit_vars, entry_buffer, mismatches, run_extremes, prev, call, buffer, rwb, rc, ret, allocations, divisors>>

\* lines 283-287: read pass over every byte, buffer unchanged
VerifyCycleRead ==
    /\ pc = "vc_read"
    /\ cycle_ops' = Append(cycle_ops, "read")
    /\ pc' = "vc_write"
    /\ UNCHANGED <<timer_vars, unit_vars, entry_buffer, mismatches, run_extremes, prev, call, now, buffer, rwb, vc, rc, ret, allocations,
                   timer_starts, cycles, divisors>>

\* line 290
VerifyCycleWrite ==
    /\ pc = "vc_write"
    /\ buffer' = write_pattern(buffer, call.buffer_size_bytes)
    /\ cycle_ops' = Append(cycle_ops, "write")
    /\ pc' = "vc_verify"
    /\ UNCHANGED <<timer_vars, unit_vars, entry_buffer, mismatches, run_extremes, prev, call, now, rwb, vc, rc, ret, allocations, timer_starts,
                   cycles, divisors>>

\* line 293
VerifyCycleVerify ==
    /\ pc = "vc_verify"
    /\ vc' = [vc EXCEPT !.errors = verify_pattern(buffer,
                                                  call.buffer_size_bytes)]
    /\ mismatches' = mismatches
          + Cardinality({j \in DOMAIN buffer : buffer[j] # j % (ByteMask + 1)})
    /\ cycle_ops' = Append(cycle_ops, "verify")
    /\ pc' = "vc_latency"
    /\ UNCHANGED <<timer_vars, unit_vars, entry_buffer, run_extremes, prev, call, now, buffer, rwb, rc, ret, allocations,
                   timer_starts, cycles, divisors>>

\* lines 296-298: the cycle latency is read off the cycle timer
VerifyCycleLatency ==
    /\ pc = "vc_latency"
    /\ \E t \in ClockReads :
          /\ now' = t
          /\ vc' = [vc EXCEPT
                      !.cycle_latency_ns = elapsed_nanoseconds(vc.cycle_timer, t)]
    /\ pc' = "rwb_accumulate"
    /\ UNCHANGED <<timer_vars, unit_vars, entry_buffer, mismatches, run_extremes, prev, call, buffer, rwb, rc, ret, allocations, timer_starts,
                   cycles, cycle_ops, divisors>>

\* ---- MemoryBenchmark::run_continuous ------------------------------------
ContinuousCall(buffer_size_bytes, iterations_per_run, max_runs, duration) ==
    [op |-> "run_continuous", buffer_size_bytes |-> buffer_size_bytes,
     iterations |-> iterations_per_run, max_runs |-> max_runs,
     max_duration_seconds |-> FromInt(duration)]

\* mutant: a zero duration is taken for a bound
NoStoppingBound_NegativeOnly(max_runs, max_duration_seconds) ==
    max_runs = 0 /\ RLess(max_duration_seconds, Zero)

\* line 144
NoStoppingBound(max_runs, max_duration_seconds) ==
    max_runs = 0 /\ RLeq(max_duration_seconds, Zero)

\* lines 122-139: zero buffer size
ContinuousRejectBufferSize ==
    /\ CanCall
    /\ Remember
    /\ \E buffer_size_bytes \in BufferSizes, iterations \in IterationCounts,
          max_runs \in RunCounts, d \in Durations :
          /\ BufferSizeInvalid(buffer_size_bytes)
          /\ call' = ContinuousCall(buffer_size_bytes, iterations, max_runs, d)
          /\ ret' = InitialResults(buffer_size_bytes, iterations)
    /\ pc' = "returned"
    /\ UNCHANGED <<timer_vars, unit_vars, entry_buffer, mismatches, run_extremes, now, buffer, rwb, vc, rc, allocations, timer_starts,
                   cycles, cycle_ops, divisors>>

\* lines 122-143: zero iterations per run
ContinuousRejectIterations ==
    /\ CanCall
    /\ Remember
    /\ \E buffer_size_bytes \in BufferSizes, iterations \in IterationCounts,
          max_runs \in RunCounts, d \in Durations :
          /\ ~BufferSizeInvalid(buffer_size_bytes)
          /\ IterationsInvalid(iterations)
          /\ call' = ContinuousCall(buffer_size_bytes, iterations, max_runs, d)
          /\ ret' = InitialResults(buffer_size_bytes, iterations)
    /\ pc' = "returned"
    /\ UNCHANGED <<timer_vars, unit_vars, entry_buffer, mismatches, run_extremes, now, buffer, rwb, vc, rc, allocations, timer_starts,
                   cycles, cycle_ops, divisors>>

\* lines 122-147: neither a run count nor a duration given
ContinuousRejectNoBound ==
    /\ CanCall
    /\ Remember
    /\ \E buffer_size_bytes \in BufferSizes, iterations \in IterationCounts,
          max_runs \in RunCounts, d \in Durations :
          /\ ~BufferSizeInvalid(buffer_size_bytes)
          /\ ~IterationsInvalid(iterations)
          /\ NoStoppingBound(max_runs, FromInt(d))
          /\ call' = ContinuousCall(buffer_size_bytes, iterations, max_runs, d)
          /\ ret' = InitialResults(buffer_size_bytes, iterations)
    /\ pc' = "returned"
    /\ UNCHANGED <<timer_vars, unit_vars, entry_buffer, mismatches, run_extremes, now, buffer, rwb, vc, rc, allocations, timer_starts,
                   cycles, cycle_ops, divisors>>

\* lines 122-156: the arguments pass the checks, the buffer is allocated once
ContinuousAllocate ==
    /\ pc = "idle"
    /\ \E buffer_size_bytes \in BufferSizes, iterations \in IterationCounts,
          max_runs \in RunCounts, d \in Durations :
          /\ ~BufferSizeInvalid(buffer_size_bytes)
          /\ ~IterationsInvalid(iterations)
          /\ ~NoStoppingBound(max_runs, FromInt(d))
          /\ call' = ContinuousCall(buffer_size_bytes, iterations, max_runs, d)
          /\ buffer' = NewBuffer(buffer_size_bytes)
          /\ rc' = [NoRc EXCEPT
                      !.aggregated_results =
                          InitialResults(buffer_size_bytes, iterations)]
    /\ allocations' = allocations + 1
    /\ pc' = "rc_timer"
    /\ UNCHANGED <<timer_vars, unit_vars, entry_buffer, mismatches, run_extremes, prev, now, rwb, vc, ret, timer_starts, cycles, cycle_ops,
                   divisors>>

\* lines 158-159: the session timer is started
ContinuousStartTimer ==
    /\ pc = "rc_timer"
    /\ \E t \in ClockReads :
          /\ now' = t
          /\ rc' = [rc EXCEPT !.continuous_timer = start(t)]
    /\ timer_starts' = timer_starts + 1
    /\ pc' = "rc_loop"
    /\ UNCHANGED <<timer_vars, unit_vars, entry_buffer, mismatches, run_extremes, prev, call, buffer, rwb, vc, ret, allocations, cycles,
                   cycle_ops, divisors>>

\* mutant: the duration bound is never taken as configured
DurationConfigured_Never(max_duration_seconds) ==
    RLess(max_duration_seconds, Zero)

\* line 165
DurationConfigured(max_duration_seconds) == RLess(Zero, max_duration_seconds)

\* mutant: the bound must be exceeded, not reached
DurationReached_Strict(elapsed, max_duration_seconds) ==
    RLess(max_duration_seconds, elapsed)

\* line 167
DurationReached(elapsed, max_duration_seconds) ==
    RLeq(max_duration_seconds, elapsed)

\* mutant: one run too many
RunLimitReached_OffByOne(max_runs, completed_runs) ==
    max_runs > 0 /\ completed_runs > max_runs

\* line 174
RunLimitReached(max_runs, completed_runs) ==
    max_runs > 0 /\ completed_runs >= max_runs

\* lines 163-171: top of the loop, duration limit
ContinuousCheckDuration ==
    /\ pc = "rc_loop"
    /\ IF DurationConfigured(call.max_duration_seconds)
       THEN \E t \in ClockReads :
              LET elapsed == elapsed_seconds(rc.continuous_timer, t)
              IN  /\ now' = t
                  /\ rc' = [rc EXCEPT !.elapsed = elapsed]
                  /\ pc' = IF DurationReached(elapsed,
                                              call.max_duration_seconds)
                           THEN "rc_final" ELSE "rc_check_runs"
       ELSE /\ now' = now
            /\ rc' = rc
            /\ pc' = "rc_check_runs"
    /\ UNCHANGED <<timer_vars, unit_vars, entry_buffer, mismatches, run_extremes, prev, call, buffer, rwb, vc, ret, allocations, timer_starts,
                   cycles, cycle_ops, divisors>>

\* mutant: a new buffer is allocated before every run
ContinuousCheckRuns_Reallocates ==
    /\ pc = "rc_check_runs"
    /\ IF RunLimitReached(call.max_runs, rc.completed_runs)
       THEN /\ pc' = "rc_final"
            /\ rc' = rc
            /\ UNCHANGED <<buffer, allocations>>
       ELSE /\ call.max_runs = 0 => rc.completed_runs < MaxSessionRuns
            /\ pc' = "rwb_entry"
            /\ rc' = [rc EXCEPT !.elapsed = Zero]
            /\ buffer' = NewBuffer(call.buffer_size_bytes)
            /\ allocations' = allocations + 1
    /\ UNCHANGED <<timer_vars, unit_vars, entry_buffer, mismatches, run_extremes, prev, call, now, rwb, vc, ret,
                   timer_starts, cycles, cycle_ops, divisors>>

\* mutant: a max_runs of 0 is a limit of zero runs
ContinuousCheckRuns_ZeroIsLimit ==
    /\ pc = "rc_check_runs"
    /\ IF rc.completed_runs >= call.max_runs
       THEN /\ pc' = "rc_final"
            /\ rc' = rc
       ELSE /\ call.max_runs = 0 => rc.completed_runs < MaxSessionRuns
            /\ pc' = "rwb_entry"
            /\ rc' = [rc EXCEPT !.elapsed = Zero]
    /\ UNCHANGED <<timer_vars, unit_vars, entry_buffer, mismatches, run_extremes, prev, call, now, buffer, rwb, vc, ret, allocations,
                   timer_starts, cycles, cycle_ops, divisors>>

\* lines 173-180: run count limit, otherwise run_with_buffer is called (the
\* local `elapsed` of the duration check is out of scope by then).
\* A session bounded by duration alone is cut off after MaxSessionRuns runs.
ContinuousCheckRuns ==
    /\ pc = "rc_check_runs"
    /\ IF RunLimitReached(call.max_runs, rc.completed_runs)
       THEN /\ pc' = "rc_final"
            /\ rc' = rc
       ELSE /\ call.max_runs = 0 => rc.completed_runs < MaxSessionRuns
            /\ pc' = "rwb_entry"
            /\ rc' = [rc EXCEPT !.elapsed = Zero]
    /\ UNCHANGED <<timer_vars, unit_vars, entry_buffer, mismatches, run_extremes, prev, call, now, buffer, rwb, vc, ret, allocations,
                   timer_starts, cycles, cycle_ops, divisors>>

\* mutant: the aggregate minimum is never seeded by the first run
AggregateMin_SeededFromZero(completed_runs, agg_min, run_min) ==
    IF RLess(run_min, agg_min) THEN run_min ELSE agg_min

\* mutant: the aggregate minimum keeps the larger value
AggregateMin_Inverted(completed_runs, agg_min, run_min) ==
    IF completed_runs = 0 THEN run_min
    ELSE IF RLess(agg_min, run_min) THEN run_min ELSE agg_min

\* lines 188-199: extremes across runs, seeded by the first completed run
AggregateMin(completed_runs, agg_min, run_min) ==
    IF completed_runs = 0 THEN run_min
    ELSE IF RLess(run_min, agg_min) THEN run_min ELSE agg_min

AggregateMax(completed_runs, agg_max, run_max) ==
    IF completed_runs = 0 THEN run_max
    ELSE IF RLess(agg_max, run_max) THEN run_max ELSE agg_max

\* lines 182-206: fold the run into the aggregate, or leave the loop when
\* the run produced no sample; run_results ends with the loop body
ContinuousAggregate ==
    /\ pc = "rc_aggregate"
    /\ IF rc.run_results.timing.sample_count > 0
       THEN /\ rc' = [rc EXCEPT
                        !.run_avg_latencies =
                            Append(@, rc.run_results.timing.avg_latency_ns),
                        !.run_total_times =
                            Append(@, rc.run_results.timing.total_time_seconds),
                        !.total_errors =
                            @ + rc.run_results.verification_errors,
                        !.aggregated_results.timing.min_latency_ns =
                            AggregateMin(rc.completed_runs, @,
                                rc.run_results.timing.min_latency_ns),
                        !.aggregated_results.timing.max_latency_ns =
                            AggregateMax(rc.completed_runs, @,
                                rc.run_results.timing.max_latency_ns),
                        !.aggregated_results.timing.total_time_seconds =
                            RAdd(@, rc.run_results.timing.total_time_seconds),
                        !.completed_runs = @ + 1,
                        !.run_results = ValueInitResults]
            /\ run_extremes' = Append(run_extremes,
                   [min |-> rc.run_results.timing.min_latency_ns,
                    max |-> rc.run_results.timing.max_latency_ns,
                    avg |-> rc.run_results.timing.avg_latency_ns,
                    total_time_seconds |->
                        rc.run_results.timing.total_time_seconds])
            /\ pc' = "rc_loop"
       ELSE /\ rc' = [rc EXCEPT !.run_results = ValueInitResults]
            /\ run_extremes' = run_extremes
            /\ pc' = "rc_final"
    /\ rwb' = NoRwb
    /\ UNCHANGED <<timer_vars, unit_vars, entry_buffer, mismatches, prev, call, now, buffer, vc, ret, allocations, timer_starts,
                   cycles, cycle_ops, divisors>>

\* mutant: one completed run is not enough for the aggregate
HasCompletedRuns_OffByOne(completed_runs) == completed_runs > 1

\* mutant: the aggregate is computed even without a completed run
HasCompletedRuns_Always(completed_runs) == completed_runs >= 0

\* line 210
HasCompletedRuns(completed_runs) == completed_runs > 0

\* mutant: the throughput is taken over the time of the last run
AggregatedResults_LastRunTime(c, buffer_size_bytes, iterations_per_run) ==
    LET a == c.aggregated_results
        avg_latency_ns == RDiv(RSum(c.run_avg_latencies),
                               FromInt(c.completed_runs))
        stats == calculate_statistics(c.run_avg_latencies, avg_latency_ns)
        total_bytes_processed ==
            RMul(RMul(RMul(FromInt(buffer_size_bytes),
                           FromInt(iterations_per_run)),
                      FromInt(c.completed_runs)), FromInt(3))
        computed ==
            [a EXCEPT !.timing.avg_latency_ns = avg_latency_ns,
                      !.timing.sample_count = c.completed_runs,
                      !.timing.variance_ns = stats.variance,
                      !.timing.std_deviation_ns = stats.std_deviation,
                      !.throughput_mbps =
                          RDiv(RDiv(total_bytes_processed,
                                    c.run_total_times[Len(c.run_total_times)]),
                               FromInt(BytesPerMegabyte)),
                      !.iterations = iterations_per_run * c.completed_runs]
        b == IF HasCompletedRuns(c.completed_runs) THEN computed ELSE a
    IN  [b EXCEPT !.verification_errors = c.total_errors,
                  !.verification_passed = (c.total_errors = 0)]

\* mutant: the aggregate average is the average of the last run
AggregatedResults_LastRunAverage(c, buffer_size_bytes, iterations_per_run) ==
    LET a == c.aggregated_results
        avg_latency_ns == c.run_avg_latencies[Len(c.run_avg_latencies)]
        stats == calculate_statistics(c.run_avg_latencies, avg_latency_ns)
        total_bytes_processed ==
            RMul(RMul(RMul(FromInt(buffer_size_bytes),
                           FromInt(iterations_per_run)),
                      FromInt(c.completed_runs)), FromInt(3))
        computed ==
            [a EXCEPT !.timing.avg_latency_ns = avg_latency_ns,
                      !.timing.sample_count = c.completed_runs,
                      !.timing.variance_ns = stats.variance,
                      !.timing.std_deviation_ns = stats.std_deviation,
                      !.throughput_mbps =
                          RDiv(RDiv(total_bytes_processed,
                                    a.timing.total_time_seconds),
                               FromInt(BytesPerMegabyte)),
                      !.iterations = iterations_per_run * c.completed_runs]
        b == IF HasCompletedRuns(c.completed_runs) THEN computed ELSE a
    IN  [b EXCEPT !.verification_errors = c.total_errors,
                  !.verification_passed = (c.total_errors = 0)]

\* lines 209-235: the aggregate Results of the session
AggregatedResults(c, buffer_size_bytes, iterations_per_run) ==
    LET a == c.aggregated_results
        avg_latency_ns == RDiv(RSum(c.run_avg_latencies),
                               FromInt(c.completed_runs))
        stats == calculate_statistics(c.run_avg_latencies, avg_latency_ns)
        total_bytes_processed ==
            RMul(RMul(RMul(FromInt(buffer_size_bytes),
                           FromInt(iterations_per_run)),
                      FromInt(c.completed_runs)), FromInt(3))
        computed ==
            [a EXCEPT !.timing.avg_latency_ns = avg_latency_ns,
                      !.timing.sample_count = c.completed_runs,
                      !.timing.variance_ns = stats.variance,
                      !.timing.std_deviation_ns = stats.std_deviation,
                      !.throughput_mbps =
                          RDiv(RDiv(total_bytes_processed,
                                    a.timing.total_time_seconds),
                               FromInt(BytesPerMegabyte)),
                      !.iterations = iterations_per_run * c.completed_runs]
        b == IF HasCompletedRuns(c.completed_runs) THEN computed ELSE a
    IN  [b EXCEPT !.verification_errors = c.total_errors,
                  !.verification_passed = (c.total_errors = 0)]

\* lines 209-237
ContinuousFinal ==
    /\ pc = "rc_final"
    /\ ret' = AggregatedResults(rc, call.buffer_size_bytes, call.iterations)
    /\ rc' = [rc EXCEPT !.aggregated_results = ret']
    /\ divisors' = divisors \cup
          (IF HasCompletedRuns(rc.completed_runs)
           THEN calculate_statistics(rc.run_avg_latencies,
                    RDiv(RSum(rc.run_avg_latencies),
                         FromInt(rc.completed_runs))).divided_by
           ELSE {})
    /\ pc' = "returned"
    /\ UNCHANGED <<timer_vars, unit_vars, entry_buffer, mismatches, run_extremes, prev, call, now, buffer, rwb, vc, allocations, timer_starts,
                   cycles, cycle_ops>>

\* ---- specification ------------------------------------------------------
Next ==
    \/ RunRejectBufferSize
    \/ RunRejectIterations
    \/ RunAllocate
    \/ RwbEntry
    \/ VerifyCycleStart
    \/ VerifyCycleRead
    \/ VerifyCycleWrite
    \/ VerifyCycleVerify
    \/ VerifyCycleLatency
    \/ RwbAccumulate
    \/ RwbFinish
    \/ ContinuousRejectBufferSize
    \/ ContinuousRejectIterations
    \/ ContinuousRejectNoBound
    \/ ContinuousAllocate
    \/ ContinuousStartTimer
    \/ ContinuousCheckDuration
    \/ ContinuousCheckRuns
    \/ ContinuousAggregate
    \/ ContinuousFinal

Spec == Init /\ [][Next]_vars

\* ---- memory that does not keep what was written -------------------------
\* The mismatch branch of verify_pattern (lines 321-323) is taken only when
\* a byte read back differs from the byte written.  MemoryFault lets the
\* memory change byte 0 between the write pass and the verification pass of
\* a cycle, at most MaxFaults times in a call.
MemoryFault ==
    /\ pc = "vc_verify"
    /\ mismatches < MaxFaults
    /\ buffer[0] = Pattern(0)
    /\ buffer' = [buffer EXCEPT ![0] = (Pattern(0) + 1) % (ByteMask + 1)]
    /\ UNCHANGED <<timer_vars, unit_vars, entry_buffer, mismatches, run_extremes, pc, call, now, rwb,
                   vc, rc, ret, prev, allocations, timer_starts, cycles,
                   cycle_ops, divisors>>

NextFaulty ==
    \/ Next
    \/ MemoryFault

SpecFaulty == Init /\ [][NextFaulty]_vars

\* ---- a Timer on its own --------------------------------------------------
\* One Timer object, started and queried in any order.  `last_start` is the
\* clock reading of the most recent start() call, `query` the last elapsed
\* query: its kind, the value returned, the clock reading it took (`at`) and
\* the start it had to measure from (`since`).
bench_vars == <<pc, call, buffer, rwb, vc, rc, ret, prev, allocations, cycles, cycle_ops, divisors, mismatches, run_extremes,
                entry_buffer>>

\* timer.cpp lines 11-14
TimerStart ==
    /\ timer_starts < MaxTimerStarts
    /\ \E t \in ClockReads :
          /\ t <= MaxClock
          /\ now' = t
          /\ timer' = start(t)
          /\ last_start' = t
    /\ timer_starts' = timer_starts + 1
    /\ UNCHANGED <<bench_vars, unit_vars, query>>

\* an elapsed query reads the clock only when the timer was started
ClockReadIfStarted ==
    IF ~timer.started_ THEN now' = now
    ELSE \E t \in ClockReads : t <= MaxClock /\ now' = t

Queried(kind, value, at) ==
    [kind |-> kind, value |-> value, at |-> at, since |-> last_start]

\* timer.cpp lines 16-26
TimerElapsedSeconds ==
    /\ ClockReadIfStarted
    /\ query' = Queried("seconds", elapsed_seconds(timer, now'), now')
    /\ UNCHANGED <<bench_vars, unit_vars, timer_starts, timer, last_start>>

\* timer.cpp lines 28-38
TimerElapsedNanoseconds ==
    /\ ClockReadIfStarted
    /\ query' = Queried("nanoseconds",
                        FromInt(elapsed_nanoseconds(timer, now')), now')
    /\ UNCHANGED <<bench_vars, unit_vars, timer_starts, timer, last_start>>

\* timer.cpp lines 40-50
TimerElapsedMilliseconds ==
    /\ ClockReadIfStarted
    /\ query' = Queried("milliseconds", elapsed_milliseconds(timer, now'), now')
    /\ UNCHANGED <<bench_vars, unit_vars, timer_starts, timer, last_start>>

NextTimer ==
    \/ TimerStart
    \/ TimerElapsedSeconds
    \/ TimerElapsedNanoseconds
    \/ TimerElapsedMilliseconds

SpecTimer == Init /\ [][NextTimer]_vars

\* ---- calculate_statistics on its own --------------------------------------
\* The routine is given any sequence of up to MaxSamples latencies and any
\* mean, not only the mean of that sequence.
memory_vars == <<bench_vars, timer_vars, now, timer_starts>>

SampleValues == {FromInt(x) : x \in 0..MaxLatency}

SampleSequences == UNION {[1..n -> SampleValues] : n \in 0..MaxSamples}

Means == {Rat(x, 2) : x \in 0..(2 * MaxLatency)}

InitStats ==
    /\ InitMemory
    /\ main = NoMain
    /\ net = NoNet
    /\ \E latencies \in SampleSequences, mean \in Means :
          stat_call = [NoStats EXCEPT !.latencies = latencies, !.mean = mean]

\* memory_benchmark.cpp lines 240-271
CalculateStatistics ==
    /\ ~stat_call.called
    /\ LET out == calculate_statistics(stat_call.latencies, stat_call.mean)
       IN  stat_call' = [stat_call EXCEPT !.called = TRUE,
                                          !.variance = out.variance,
                                          !.std_deviation = out.std_deviation]
    /\ UNCHANGED <<memory_vars, main, net>>

NextStats == CalculateStatistics

SpecStats == InitStats /\ [][NextStats]_vars

\* ---- main ------------------------------------------------------------------
\* main after its command line was parsed without error.  Each benchmark is a
\* call that main waits for; trace records the calls and their returns.
\* lines 157-239: --continuous-runs and --continuous-duration set both
\* continuous_mode and run_benchmark
ParsedOptions ==
    {o \in [run_benchmark : BOOLEAN, continuous_mode : BOOLEAN,
            run_cpu_benchmark : BOOLEAN, run_network_benchmark : BOOLEAN,
            host_empty : BOOLEAN,
            network_iterations : 1..MaxNetworkIterations] :
        /\ o.continuous_mode => o.run_benchmark
        /\ ~o.run_network_benchmark => o.host_empty}

InitMain ==
    /\ InitMemory
    /\ stat_call = NoStats
    /\ net = NoNet
    /\ \E o \in ParsedOptions :
          main = [pc |-> "priority", run_benchmark |-> o.run_benchmark,
                  continuous_mode |-> o.continuous_mode,
                  run_cpu_benchmark |-> o.run_cpu_benchmark,
                  run_network_benchmark |-> o.run_network_benchmark,
                  host_empty |-> o.host_empty,
                  network_iterations |-> o.network_iterations,
                  trace |-> <<>>, exit |-> "running"]

MainStep(next_pc, event) ==
    /\ main' = [main EXCEPT !.pc = next_pc, !.trace = Append(@, event)]
    /\ UNCHANGED <<memory_vars, stat_call, net>>

MainSkip(next_pc) ==
    /\ main' = [main EXCEPT !.pc = next_pc]
    /\ UNCHANGED <<memory_vars, stat_call, net>>

MainExit(code) ==
    /\ main' = [main EXCEPT !.pc = "exited", !.exit = code]
    /\ UNCHANGED <<memory_vars, stat_call, net>>

\* lines 244-266: ProcessPriority::attempt_raise
MainPriority ==
    /\ main.pc = "priority"
    /\ MainStep("memory", "attempt_raise")

\* line 270
MainMemorySkip ==
    /\ main.pc = "memory"
    /\ ~main.run_benchmark
    /\ MainSkip("cpu")

\* mutant: the memory benchmark is started and not waited for
MainMemoryStart_Detached ==
    /\ main.pc = "memory"
    /\ main.run_benchmark
    /\ MainStep("cpu", IF main.continuous_mode THEN "run_continuous"
                       ELSE "run")

\* lines 270-296: run_continuous in continuous mode, run otherwise
MainMemoryStart ==
    /\ main.pc = "memory"
    /\ main.run_benchmark
    /\ MainStep("memory_called", IF main.continuous_mode THEN "run_continuous"
                                 ELSE "run")

\* lines 297-305: a failed verification ends main before the other benchmarks
MainMemoryReturn ==
    /\ main.pc = "memory_called"
    /\ \E verification_passed \in BOOLEAN :
          MainStep(IF verification_passed THEN "cpu" ELSE "memory_failed",
                   "memory_returned")

\* line 303
MainMemoryFailed ==
    /\ main.pc = "memory_failed"
    /\ MainExit("EXIT_FAILURE")

\* line 309
MainCpuSkip ==
    /\ main.pc = "cpu"
    /\ ~main.run_cpu_benchmark
    /\ MainSkip("network")

\* lines 309-315
MainCpuStart ==
    /\ main.pc = "cpu"
    /\ main.run_cpu_benchmark
    /\ MainStep("cpu_called", "cpu_run")

\* lines 315-323: a failed CPU benchmark is only warned about
MainCpuReturn ==
    /\ main.pc = "cpu_called"
    /\ MainStep("network", "cpu_returned")

\* line 326
MainNetworkSkip ==
    /\ main.pc = "network"
    /\ ~main.run_network_benchmark
    /\ MainExit("EXIT_SUCCESS")

\* lines 327-330
MainNetworkNoHost ==
    /\ main.pc = "network"
    /\ main.run_network_benchmark
    /\ main.host_empty
    /\ MainExit("EXIT_FAILURE")

\* lines 332-349: run_call_loop for more than one iteration, run otherwise
MainNetworkStart ==
    /\ main.pc = "network"
    /\ main.run_network_benchmark
    /\ ~main.host_empty
    /\ MainStep("network_called", IF main.network_iterations > 1
                                  THEN "network_run_call_loop"
                                  ELSE "network_run")

\* lines 350-374
MainNetworkReturn ==
    /\ main.pc = "network_called"
    /\ MainStep("network_done", "network_returned")

\* line 374
MainReturn ==
    /\ main.pc = "network_done"
    /\ MainExit("EXIT_SUCCESS")

NextMain ==
    \/ MainPriority
    \/ MainMemorySkip
    \/ MainMemoryStart
    \/ MainMemoryReturn
    \/ MainMemoryFailed
    \/ MainCpuSkip
    \/ MainCpuStart
    \/ MainCpuReturn
    \/ MainNetworkSkip
    \/ MainNetworkNoHost
    \/ MainNetworkStart
    \/ MainNetworkReturn
    \/ MainReturn

SpecMain == InitMain /\ [][NextMain]_vars

\* ---- NetworkBenchmark::run ------------------------------------------------
\* The peer either refuses the connection, resets it while the payload is
\* sent, echoes the payload (in pieces of any size), closes the connection
\* without sending, resets it after the payload was sent, or keeps it open
\* and never sends ("silent").
Servers == {"refuse", "reset_on_send", "echo", "close", "reset", "silent"}

PayloadSizes == 0..MaxPayload

\* errno values after which send_data and receive_data call again
RetryErrnos == {"EAGAIN", "EINTR"}

InitNet ==
    /\ InitMemory
    /\ stat_call = NoStats
    /\ main = NoMain
    /\ \E server \in Servers, payload_size_bytes \in PayloadSizes :
          net = [NoNet EXCEPT !.pc = "connect", !.server = server,
                              !.payload_size_bytes = payload_size_bytes]

NetStep(n) ==
    /\ net' = n
    /\ UNCHANGED <<memory_vars, stat_call, main>>

\* lines 51-65 and connect_to_host: a failed connection ends run
NetConnect ==
    /\ net.pc = "connect"
    /\ IF net.server = "refuse"
       THEN NetStep([net EXCEPT
                       !.error_message = "Failed to establish connection",
                       !.pc = "returned"])
       ELSE NetStep([net EXCEPT !.connection_successful = TRUE,
                                !.socket_open = TRUE,
                                !.pc = "send"])

\* send_data lines 488-503: one send() call that the socket accepts in part
\* or in whole, or that fails with EAGAIN and is made again
NetSend ==
    /\ net.pc = "send"
    /\ net.total_sent < net.payload_size_bytes
    /\ net.server # "reset_on_send"
    /\ \/ \E k \in 1..(net.payload_size_bytes - net.total_sent) :
             NetStep([net EXCEPT !.total_sent = @ + k])
       \/ /\ net.send_retries < MaxSendRetries
          /\ NetStep([net EXCEPT !.send_retries = @ + 1])

\* send_data lines 494-499 and run lines 85-89: send() fails, run gives up
NetSendFailed ==
    /\ net.pc = "send"
    /\ net.total_sent < net.payload_size_bytes
    /\ net.server = "reset_on_send"
    /\ NetStep([net EXCEPT
                  !.error_message = "Failed to send data completely",
                  !.socket_open = FALSE,
                  !.pc = "returned"])

\* send_data lines 505-506 and run lines 85-91: the whole payload was sent
NetSendDone ==
    /\ net.pc = "send"
    /\ net.total_sent = net.payload_size_bytes
    /\ NetStep([net EXCEPT !.pc = "recv"])

\* what one recv() call returns from each peer, with SO_RCVTIMEO set:
\* a count of bytes, 0 when the peer closed, -1 and errno otherwise; a
\* signal interrupts the call at most MaxInterrupts times, and a peer that
\* never sends makes every call time out with EAGAIN
RecvOutcomes(server, remaining, interrupts) ==
    CASE server = "echo" ->
             {[result |-> k, errno |-> "none"] : k \in 1..remaining}
               \cup (IF interrupts < MaxInterrupts
                     THEN {[result |-> -1, errno |-> "EINTR"]} ELSE {})
      [] server = "close" -> {[result |-> 0, errno |-> "none"]}
      [] server = "reset" -> {[result |-> -1, errno |-> "ECONNRESET"]}
      [] server = "silent" -> {[result |-> -1, errno |-> "EAGAIN"]}
      [] OTHER -> {}

\* receive_data lines 535-539: one recv() call
NetRecv ==
    /\ net.pc = "recv"
    /\ net.total_received < net.payload_size_bytes
    /\ \E o \in RecvOutcomes(net.server,
                              net.payload_size_bytes - net.total_received,
                              net.interrupts) :
          NetStep([net EXCEPT !.recv_result = o.result,
                              !.recv_errno = o.errno,
                              !.interrupts =
                                  IF o.errno = "EINTR" THEN @ + 1 ELSE @,
                              !.pc = "recv_check"])

\* receive_data lines 541-555: continue on EAGAIN, EWOULDBLOCK and EINTR,
\* return -1 on another error, leave the loop when the peer closed
NetRecvCheck ==
    /\ net.pc = "recv_check"
    /\ IF net.recv_result < 0
       THEN IF net.recv_errno \in RetryErrnos
            THEN NetStep([net EXCEPT !.pc = "recv"])
            ELSE NetStep([net EXCEPT !.bytes_received = -1, !.pc = "finish"])
       ELSE IF net.recv_result = 0
       THEN NetStep([net EXCEPT !.bytes_received = net.total_received,
                                !.pc = "finish"])
       ELSE NetStep([net EXCEPT !.total_received = @ + net.recv_result,
                                !.pc = "recv"])

\* receive_data lines 535 and 557-558: the loop ends with the buffer full
NetRecvDone ==
    /\ net.pc = "recv"
    /\ net.total_received = net.payload_size_bytes
    /\ NetStep([net EXCEPT !.bytes_received = net.total_received,
                           !.pc = "finish"])

\* run lines 99-123
NetFinish ==
    /\ net.pc = "finish"
    /\ IF net.bytes_received >= 0
       THEN NetStep([net EXCEPT !.data_exchange_successful = TRUE,
                                !.benchmark_successful = TRUE,
                                !.socket_open = FALSE,
                                !.pc = "returned"])
       ELSE NetStep([net EXCEPT
                       !.data_exchange_successful = FALSE,
                       !.benchmark_successful = TRUE,
                       !.error_message =
         "Server did not echo data (this is normal for most servers)",
                       !.socket_open = FALSE,
                       !.pc = "returned"])

NextNet ==
    \/ NetConnect
    \/ NetSend
    \/ NetSendFailed
    \/ NetSendDone
    \/ NetRecv
    \/ NetRecvCheck
    \/ NetRecvDone
    \/ NetFinish

\* run is one thread that is never suspended for good
SpecNet == InitNet /\ [][NextNet]_vars /\ WF_vars(NextNet)

\* ---- run_with_buffer on a buffer of any contents --------------------------
\* run_with_buffer takes a pointer to bytes it did not initialise: it is
\* entered with every buffer of up to MaxAnyBuffer bytes over ByteValues.
ByteValues == {0, 1, ByteMask}

AnyBuffers == UNION {[0..(size - 1) -> ByteValues] : size \in 1..MaxAnyBuffer}

InitAnyBuffer ==
    /\ pc = "rwb_entry"
    /\ \E contents \in AnyBuffers, iterations \in IterationCounts :
          /\ ~IterationsInvalid(iterations)
          /\ buffer = contents
          /\ call = RunCall(Cardinality(DOMAIN contents), iterations)
    /\ allocations = 1
    /\ now = 0
    /\ rwb = NoRwb
    /\ vc = NoVc
    /\ rc = NoRc
    /\ ret = ValueInitResults
    /\ prev = NoPrev
    /\ timer_starts = 0
    /\ cycles = 0
    /\ cycle_ops = <<>>
    /\ divisors = {}
    /\ mismatches = 0
    /\ run_extremes = <<>>
    /\ entry_buffer = <<>>
    /\ timer = Timer
    /\ last_start = NeverStarted
    /\ query = NoQuery
    /\ stat_call = NoStats
    /\ main = NoMain
    /\ net = NoNet

NextAnyBuffer ==
    \/ RwbEntry
    \/ VerifyCycleStart
    \/ VerifyCycleRead
    \/ VerifyCycleWrite
    \/ VerifyCycleVerify
    \/ VerifyCycleLatency
    \/ RwbAccumulate
    \/ RwbFinish

SpecAnyBuffer == InitAnyBuffer /\ [][NextAnyBuffer]_vars

\* ---- a clock that advances during each run -------------------------------
\* std::chrono::steady_clock is read when run_with_buffer starts total_timer
\* (line 55) and again for the elapsed time of the run (line 90), with all
\* the cycles of the run in between.  Here the second reading is later than
\* the first, and the single thread of the benchmark keeps taking steps.
RwbFinishClockAdvanced ==
    /\ RwbFinish
    /\ now' > rwb.total_timer.start_time_

NextLive ==
    \/ RunRejectBufferSize
    \/ RunRejectIterations
    \/ RunAllocate
    \/ RwbEntry
    \/ VerifyCycleStart
    \/ VerifyCycleRead
    \/ VerifyCycleWrite
    \/ VerifyCycleVerify
    \/ VerifyCycleLatency
    \/ RwbAccumulate
    \/ RwbFinishClockAdvanced
    \/ ContinuousRejectBufferSize
    \/ ContinuousRejectIterations
    \/ ContinuousRejectNoBound
    \/ ContinuousAllocate
    \/ ContinuousStartTimer
    \/ ContinuousCheckDuration
    \/ ContinuousCheckRuns
    \/ ContinuousAggregate
    \/ ContinuousFinal

SpecLive == Init /\ [][NextLive]_vars /\ WF_vars(NextLive)

\* ---- properties ---------------------------------------------------------
Returned == pc = "returned"

ValidSizes == ~BufferSizeInvalid(call.buffer_size_bytes)
                 /\ ~IterationsInvalid(call.iterations)

\* history kept for the properties: `mismatches` is the number of bytes
\* that any verification pass found different from the pattern,
\* `run_extremes` the minimum and maximum latency of each completed run,
\* with the run's average latency and total time.

\* run_with_buffer has just returned its Results (to run, which returns them
\* unchanged, or to the loop of run_continuous)
SingleRunDone ==
    \/ Returned /\ call.op = "run" /\ ValidSizes
    \/ pc = "rc_aggregate"

SessionDone == Returned /\ call.op = "run_continuous" /\ allocations = 1

TimingAllZero(t) ==
    /\ t.min_latency_ns = Zero
    /\ t.max_latency_ns = Zero
    /\ t.avg_latency_ns = Zero
    /\ t.total_time_seconds = Zero
    /\ t.variance_ns = Zero
    /\ t.std_deviation_ns = Sqrt(Zero)
    /\ t.sample_count = 0

\* C1: the timing returned by every single run with buffer_size_bytes > 0
\* and iterations > 0 satisfies min_latency_ns <= avg_latency_ns <=
\* max_latency_ns, whatever the per-cycle latencies were.
C1_MinAvgMax ==
    SingleRunDone =>
        /\ RLeq(rwb.results.timing.min_latency_ns,
                rwb.results.timing.avg_latency_ns)
        /\ RLeq(rwb.results.timing.avg_latency_ns,
                rwb.results.timing.max_latency_ns)
        /\ (call.op = "run" => ret = rwb.results)

C1_Witness ==
    /\ Returned /\ call.op = "run"
    /\ RLess(ret.timing.min_latency_ns, ret.timing.avg_latency_ns)
    /\ RLess(ret.timing.avg_latency_ns, ret.timing.max_latency_ns)

\* C2: a single run with iterations == 1 has variance_ns == 0 and
\* std_deviation_ns == 0, and calculate_statistics has returned before
\* dividing by n - 1 = 0.
C2_OneIteration ==
    /\ 0 \notin divisors
    /\ SingleRunDone /\ call.iterations = 1 =>
          /\ rwb.results.timing.variance_ns = Zero
          /\ rwb.results.timing.std_deviation_ns = Sqrt(Zero)
          /\ rwb.results.timing.sample_count = 1
          /\ divisors = {}

C2_Witness ==
    /\ Returned /\ call.op = "run" /\ call.iterations = 1
    /\ ret.timing.sample_count = 1
    /\ RLess(Zero, ret.timing.avg_latency_ns)

\* C3: run_continuous with valid sizes, max_runs = N > 0 and no duration
\* bound completes exactly N runs: sample_count == N, iterations ==
\* iterations_per_run * N and verification_passed.
C3_ExactlyMaxRuns ==
    SessionDone /\ call.max_runs > 0
                /\ ~DurationConfigured(call.max_duration_seconds) =>
        /\ rc.completed_runs = call.max_runs
        /\ ret.timing.sample_count = call.max_runs
        /\ ret.iterations = call.iterations * call.max_runs
        /\ cycles = call.iterations * call.max_runs
        /\ ret.verification_passed = TRUE

C3_Witness ==
    /\ SessionDone /\ call.max_runs = 2 /\ call.iterations = 2
    /\ ~DurationConfigured(call.max_duration_seconds)
    /\ ret.iterations = 4

DurationSession ==
    /\ call.op = "run_continuous" /\ allocations = 1
    /\ DurationConfigured(call.max_duration_seconds)

\* C4 as stated: with a positive max_duration_seconds at least one run
\* always executes, and exactly one when a single run outlasts the bound.
C4_Original ==
    Returned /\ DurationSession =>
        /\ rc.completed_runs >= 1
        /\ RLeq(call.max_duration_seconds, rc.run_total_times[1]) =>
               rc.completed_runs = 1

\* C4 amended: the duration is checked before every run, the first one
\* included.  A run is started only when the elapsed time read at that check
\* is below max_duration_seconds; a session that completed no run read an
\* elapsed time at or above the bound at its first check; and when the first
\* run takes at least the bound, exactly one run completes.
C4_DurationCheckedBeforeEveryRun ==
    DurationSession =>
        /\ pc = "rc_check_runs" =>
               RLess(rc.elapsed, call.max_duration_seconds)
        /\ Returned /\ rc.completed_runs = 0 =>
               RLeq(call.max_duration_seconds, rc.elapsed)
        /\ Returned /\ rc.completed_runs >= 1
                    /\ RLeq(call.max_duration_seconds, rc.run_total_times[1]) =>
               rc.completed_runs = 1

C4_Witness ==
    /\ Returned /\ DurationSession /\ call.max_runs = 0
    /\ rc.completed_runs = 1
    /\ RLeq(call.max_duration_seconds, rc.run_total_times[1])

\* C5: a call with buffer_size_bytes == 0 (run or run_continuous, any
\* iteration count) returns sample_count == 0 and has allocated no buffer,
\* started no timer and executed no cycle.
C5_ZeroBufferSize ==
    call.op # "none" /\ call.buffer_size_bytes = 0 =>
        /\ Returned
        /\ ret.timing.sample_count = 0
        /\ allocations = 0
        /\ buffer = <<>>
        /\ timer_starts = 0
        /\ cycles = 0

C5_Witness ==
    /\ Returned /\ call.op = "run_continuous"
    /\ call.buffer_size_bytes = 0 /\ call.iterations > 0
    /\ call.max_runs > 0

RunRejected ==
    /\ Returned /\ call.op = "run"
    /\ call.buffer_size_bytes = 0 \/ call.iterations = 0

\* C6 as stated: run with a zero buffer size or zero iterations returns a
\* zeroed Results with verification_passed == true and sample_count == 0.
C6_Original ==
    RunRejected =>
        /\ ret.verification_passed = TRUE
        /\ ret.timing.sample_count = 0

\* C6 amended: run with a zero buffer size or zero iterations returns a
\* zeroed Results, in which verification_passed == false and
\* sample_count == 0.
C6_RejectedRunIsZeroed ==
    RunRejected =>
        /\ ret.verification_passed = FALSE
        /\ ret.verification_errors = 0
        /\ ret.buffer_size_bytes = 0
        /\ ret.iterations = 0
        /\ ret.throughput_mbps = Zero
        /\ TimingAllZero(ret.timing)

C6_Witness ==
    /\ RunRejected
    /\ call.buffer_size_bytes > 0 /\ call.iterations = 0
    /\ ~ret.verification_passed

\* C7: run_continuous with max_runs == 0 and max_duration_seconds <= 0, for
\* any buffer size and iteration count, executes no run and returns
\* sample_count == 0.
C7_NoStoppingBound ==
    /\ call.op = "run_continuous"
    /\ call.max_runs = 0
    /\ RLeq(call.max_duration_seconds, Zero)
    =>  /\ Returned
        /\ ret.timing.sample_count = 0
        /\ allocations = 0
        /\ timer_starts = 0
        /\ cycles = 0

C7_Witness ==
    /\ Returned /\ call.op = "run_continuous" /\ ValidSizes
    /\ call.max_runs = 0 /\ call.max_duration_seconds = Zero

\* a rejected run and a rejected run_continuous on the same buffer size and
\* iteration count, one of them zero
RunResult == IF call.op = "run" THEN ret ELSE prev.ret

ContinuousResult == IF call.op = "run_continuous" THEN ret ELSE prev.ret

BothRejected ==
    /\ Returned
    /\ {call.op, prev.op} = {"run", "run_continuous"}
    /\ call.buffer_size_bytes = prev.buffer_size_bytes
    /\ call.iterations = prev.iterations
    /\ call.buffer_size_bytes = 0 \/ call.iterations = 0

\* C8 as stated: on a zero buffer size or zero iterations run_continuous and
\* run return results that agree on verification_passed, sample_count,
\* buffer_size_bytes, iterations and all timing fields.
C8_Original ==
    BothRejected =>
        /\ RunResult.verification_passed = ContinuousResult.verification_passed
        /\ RunResult.buffer_size_bytes = ContinuousResult.buffer_size_bytes
        /\ RunResult.iterations = ContinuousResult.iterations
        /\ RunResult.timing = ContinuousResult.timing

\* C8 amended: on a zero buffer size or zero iterations run_continuous and
\* run return results that agree on sample_count (0), on all timing fields
\* (0), on verification_errors and on throughput_mbps; run returns
\* verification_passed == false, buffer_size_bytes == 0 and iterations == 0,
\* run_continuous returns verification_passed == true and the
\* buffer_size_bytes and iterations_per_run it was called with.
C8_RejectionsAgreeOnTiming ==
    BothRejected =>
        /\ RunResult.timing = ContinuousResult.timing
        /\ TimingAllZero(ContinuousResult.timing)
        /\ RunResult.verification_errors = ContinuousResult.verification_errors
        /\ RunResult.throughput_mbps = ContinuousResult.throughput_mbps
        /\ ~RunResult.verification_passed
        /\ ContinuousResult.verification_passed
        /\ RunResult.buffer_size_bytes = 0
        /\ RunResult.iterations = 0
        /\ ContinuousResult.buffer_size_bytes = call.buffer_size_bytes
        /\ ContinuousResult.iterations = call.iterations

C8_Witness ==
    /\ BothRejected
    /\ call.op = "run_continuous" /\ prev.op = "run"
    /\ call.buffer_size_bytes = 0 /\ call.iterations > 0

\* C9: a run_continuous session with a valid configuration that completes
\* zero runs returns verification_passed == true, sample_count == 0 and
\* every statistic equal to 0.
C9_ZeroRunsZeroed ==
    SessionDone /\ rc.completed_runs = 0 =>
        /\ ret.verification_passed = TRUE
        /\ ret.verification_errors = 0
        /\ TimingAllZero(ret.timing)
        /\ ret.throughput_mbps = Zero

C9_Witness ==
    /\ SessionDone /\ rc.completed_runs = 0
    /\ cycles = 0 /\ timer_starts = 1
    /\ ret.timing.sample_count = 0

C11_MismatchNeverStops ==
    /\ SingleRunDone =>
          /\ Len(rwb.latencies) = call.iterations
          /\ rwb.results.timing.sample_count = call.iterations
    /\ Returned /\ call.op = "run" /\ ValidSizes => cycles = call.iterations
    /\ SessionDone /\ call.max_runs > 0
                   /\ ~DurationConfigured(call.max_duration_seconds) =>
          /\ rc.completed_runs = call.max_runs
          /\ cycles = call.iterations * call.max_runs

\* a run with errors was followed by another run, in which a cycle with
\* errors is followed by another cycle
C11_Witness ==
    /\ pc = "vc_read" /\ call.op = "run_continuous"
    /\ rc.completed_runs = 1 /\ rc.total_errors >= 1
    /\ rwb.i = 1 /\ rwb.total_errors >= 1

\* C12: every run_continuous session with a valid configuration returns.
\* With max_runs > 0 it never completes more than max_runs runs; with a
\* duration bound alone it returns with the bound reached on a clock that
\* advances during each run, having completed no more runs than the bound
\* has clock ticks; the loop is always left.
C12_SessionReturns ==
    /\ [](call.op = "run_continuous" /\ call.max_runs > 0 =>
             rc.completed_runs <= call.max_runs)
    /\ [](call.op = "run_continuous" /\ allocations = 1
                                      /\ call.max_runs = 0 =>
             RLeq(FromInt(rc.completed_runs), call.max_duration_seconds))
    /\ [](SessionDone /\ call.max_runs = 0 =>
             RLeq(call.max_duration_seconds, rc.elapsed))
    /\ (pc = "rc_loop" ~> Returned)

\* a session bounded by duration alone has returned after two runs
C12_Witness ==
    /\ SessionDone /\ call.max_runs = 0
    /\ rc.completed_runs = 2

\* C13: at every run boundary of run_continuous a new run is started exactly
\* when neither configured bound is reached: the duration check passes when
\* max_duration_seconds <= 0 or elapsed < max_duration_seconds, the run count
\* check when max_runs = 0 or completed_runs < max_runs; whichever bound
\* triggers first ends the session, and completed_runs never exceeds a
\* positive max_runs.
C13_RunStartedIffNoBoundReached ==
    [][LET duration == call'.max_duration_seconds
           duration_ok == \/ ~RLess(Zero, duration)
                          \/ RLess(rc'.elapsed, duration)
           runs_ok == \/ call.max_runs = 0
                      \/ rc.completed_runs < call.max_runs
       IN  /\ pc = "rc_loop" =>
                /\ pc' = "rc_check_runs" <=> duration_ok
                /\ pc' = "rc_final" <=> ~duration_ok
           /\ pc = "rc_check_runs" =>
                /\ pc' = "rwb_entry" <=> runs_ok
                /\ pc' = "rc_final" <=> ~runs_ok
                /\ \/ ~RLess(Zero, call.max_duration_seconds)
                   \/ RLess(rc.elapsed, call.max_duration_seconds)
           /\ call'.op = "run_continuous" /\ call'.max_runs > 0 =>
                rc'.completed_runs <= call'.max_runs]_vars

\* both bounds positive, and the duration ended the session before the run
\* count was reached
C13_Witness ==
    /\ SessionDone
    /\ call.max_runs = 2 /\ RLess(Zero, call.max_duration_seconds)
    /\ rc.completed_runs = 1

\* C14: every result returned by run_continuous satisfies the TimingStats
\* invariants: min <= avg <= max whenever sample_count >= 1, variance >= 0,
\* and variance = 0 and std deviation = 0 whenever sample_count <= 1.
C14_ContinuousTimingStats ==
    Returned /\ call.op = "run_continuous" =>
        LET t == ret.timing
        IN  /\ t.sample_count >= 1 =>
                  /\ RLeq(t.min_latency_ns, t.avg_latency_ns)
                  /\ RLeq(t.avg_latency_ns, t.max_latency_ns)
            /\ RLeq(Zero, t.variance_ns)
            /\ t.sample_count <= 1 =>
                  /\ t.variance_ns = Zero
                  /\ t.std_deviation_ns = Sqrt(Zero)

\* two completed runs whose average latencies differ
C14_Witness ==
    /\ SessionDone
    /\ ret.timing.sample_count = 2
    /\ RLess(Zero, ret.timing.variance_ns)
    /\ RLess(ret.timing.min_latency_ns, ret.timing.avg_latency_ns)

\* C15: in every result of run and run_continuous that executed at least one
\* cycle, verification_errors is the sum of the mismatch counts of all
\* executed cycles and verification_passed is true exactly when the sum is 0.
C15_ErrorsAreSummed ==
    Returned /\ cycles >= 1 =>
        /\ ret.verification_errors = mismatches
        /\ ret.verification_passed <=> (mismatches = 0)

\* two runs of one cycle each, a mismatch in both
C15_Witness ==
    /\ SessionDone /\ rc.completed_runs = 2 /\ cycles = 2
    /\ mismatches = 2 /\ ret.verification_errors = 2
    /\ ~ret.verification_passed

\* C16: whenever run_continuous completes at least one run, however the
\* session stopped, the reported iterations is iterations_per_run times the
\* number of completed runs (the cycles that were executed) and sample_count
\* is the number of completed runs.
C16_IterationsAndSampleCount ==
    SessionDone /\ rc.completed_runs >= 1 =>
        /\ ret.iterations = call.iterations * rc.completed_runs
        /\ ret.timing.sample_count = rc.completed_runs
        /\ cycles = call.iterations * rc.completed_runs
        /\ Len(run_extremes) = rc.completed_runs

\* a session stopped by its duration after two runs of two cycles
C16_Witness ==
    /\ SessionDone /\ call.max_runs = 0
    /\ call.iterations = 2 /\ rc.completed_runs = 2
    /\ ret.iterations = 4

\* C17: every Timer elapsed query (seconds, milliseconds, nanoseconds)
\* returns 0 as long as start() has never been called; after start() it
\* returns the non-negative time since the most recent start() call, in its
\* unit (seconds are held as nanosecond counts throughout).
C17_TimerQueries ==
    query.kind # "none" =>
        LET interval == query.at - query.since
        IN  /\ query.since = NeverStarted => query.value = Zero
            /\ query.since # NeverStarted =>
                  /\ interval >= 0
                  /\ RLeq(Zero, query.value)
                  /\ query.kind = "seconds" =>
                        query.value = FromInt(interval)
                  /\ query.kind = "nanoseconds" =>
                        query.value = FromInt(interval)
                  /\ query.kind = "milliseconds" =>
                        RMul(query.value, FromInt(NanosPerMilli))
                            = FromInt(interval)

\* the timer was started a second time, later than the clock's first
\* instant, and a millisecond query then measured a positive time
C17_Witness ==
    /\ timer_starts = 2
    /\ query.kind = "milliseconds"
    /\ query.since = last_start /\ query.since > 1
    /\ query.at > query.since

\* C18: a single run with iterations = N > 0 invokes verify_cycle exactly N
\* times against the one buffer run allocated, and returns sample_count = N
\* with exactly N latency samples given to calculate_statistics.
C18_ExactlyNCycles ==
    Returned /\ call.op = "run" /\ ValidSizes =>
        /\ cycles = call.iterations
        /\ allocations = 1
        /\ Cardinality(DOMAIN buffer) = call.buffer_size_bytes
        /\ ret.timing.sample_count = call.iterations
        /\ Len(rwb.latencies) = call.iterations

\* a run of two cycles has returned
C18_Witness ==
    /\ Returned /\ call.op = "run"
    /\ call.iterations = 2 /\ cycles = 2
    /\ ret.timing.sample_count = 2

\* C19: the duration bound is checked only at run boundaries.  A run that
\* run_continuous has started executes all iterations_per_run cycles even
\* when the session's elapsed time passes max_duration_seconds during it.
C19_DurationOnlyBetweenRuns ==
    DurationSession /\ pc = "rc_aggregate" =>
        /\ Len(rwb.latencies) = call.iterations
        /\ rc.run_results.timing.sample_count = call.iterations
        /\ cycles = call.iterations * (rc.completed_runs + 1)

\* the second cycle of a run begins although the session has already
\* lasted as long as its duration bound
C19_Witness ==
    /\ DurationSession /\ pc = "vc_read" /\ rwb.i = 1
    /\ RLeq(call.max_duration_seconds,
            elapsed_seconds(rc.continuous_timer, now))

LeastOf(S) == CHOOSE x \in S : \A y \in S : RLeq(x, y)

GreatestOf(S) == CHOOSE x \in S : \A y \in S : RLeq(y, x)

\* C20: after any number k >= 1 of completed runs in run_continuous the
\* aggregate min_latency_ns is the minimum of the k per-run minima and the
\* aggregate max_latency_ns the maximum of the k per-run maxima; the extremes
\* are seeded from the first completed run, never from the initial 0.
C20_AggregateExtremes ==
    call.op = "run_continuous" /\ rc.completed_runs >= 1 =>
        LET k == rc.completed_runs
            t == rc.aggregated_results.timing
        IN  /\ Len(run_extremes) = k
            /\ t.min_latency_ns =
                  LeastOf({run_extremes[j].min : j \in 1..k})
            /\ t.max_latency_ns =
                  GreatestOf({run_extremes[j].max : j \in 1..k})
            /\ Returned =>
                  /\ ret.timing.min_latency_ns = t.min_latency_ns
                  /\ ret.timing.max_latency_ns = t.max_latency_ns

\* two completed runs, neither with a cycle of latency 0: the aggregate
\* minimum is above the 0 it was initialised with
C20_Witness ==
    /\ SessionDone /\ rc.completed_runs = 2
    /\ RLess(Zero, run_extremes[1].min)
    /\ RLess(Zero, run_extremes[2].min)
    /\ RLess(Zero, ret.timing.min_latency_ns)

\* the sum of squared differences from m, over the sequence q of rationals
SquaredDeviations(q, m) ==
    LET F[k \in 0..Len(q)] ==
            IF k = 0 THEN Zero
            ELSE RAdd(F[k - 1], RMul(RSub(q[k], m), RSub(q[k], m)))
    IN  F[Len(q)]

RunAverages == [j \in 1..Len(run_extremes) |-> run_extremes[j].avg]

\* C21: when run_continuous completes k >= 1 runs, the aggregate
\* avg_latency_ns is the arithmetic mean of the k per-run average latencies,
\* and the aggregate variance is the sample variance of those same k
\* averages about that mean (0 for a single run).
C21_MeanOfRunAverages ==
    SessionDone /\ rc.completed_runs >= 1 =>
        LET k == rc.completed_runs
            mean == RDiv(RSum(RunAverages), FromInt(k))
        IN  /\ Len(run_extremes) = k
            /\ ret.timing.avg_latency_ns = mean
            /\ ret.timing.variance_ns =
                  IF k = 1 THEN Zero
                  ELSE RDiv(SquaredDeviations(RunAverages, mean),
                            FromInt(k - 1))

\* two completed runs with different average latencies
C21_Witness ==
    /\ SessionDone /\ rc.completed_runs = 2
    /\ run_extremes[1].avg # run_extremes[2].avg
    /\ RLess(Zero, ret.timing.variance_ns)

\* C22: for every sample sequence of length n >= 2 and supplied mean m,
\* calculate_statistics outputs variance = (sum of (x - m)^2) / (n - 1) and
\* std_deviation = sqrt(variance).
C22_SampleVariance ==
    stat_call.called /\ Len(stat_call.latencies) >= 2 =>
        /\ stat_call.variance =
              RDiv(SquaredDeviations(stat_call.latencies, stat_call.mean),
                   FromInt(Len(stat_call.latencies) - 1))
        /\ stat_call.std_deviation = Sqrt(stat_call.variance)

\* three samples 0, 1, 2 and the supplied mean 1/2, which is not their mean:
\* the squared deviations sum to 11/4 and the variance is 11/8
C22_Witness ==
    /\ stat_call.called
    /\ stat_call.latencies = <<FromInt(0), FromInt(1), FromInt(2)>>
    /\ stat_call.mean = Rat(1, 2)
    /\ stat_call.variance = Rat(11, 8)

InCycle == pc \in {"vc_read", "vc_write", "vc_verify", "vc_latency"}

CycleReturned == pc = "rwb_accumulate"

Differing == {j \in 0..(call.buffer_size_bytes - 1) : buffer[j] # Pattern(j)}

\* C23: each verify_cycle does a read pass, a write of the pattern over the
\* whole buffer and a verification pass, in this order and between the start
\* and the one reading of one cycle timer.  The write leaves byte j equal to
\* j mod 256 for every j below the size and no later step of the cycle stores
\* to the buffer, so the buffer still holds the pattern on return wherever
\* memory kept what was written; the returned count is the number of
\* indices whose byte differs from j mod 256 at verification.
C23_CycleOrderAndCount ==
    /\ [](/\ pc = "vc_read" => cycle_ops = <<>>
          /\ pc = "vc_write" => cycle_ops = <<"read">>
          /\ pc = "vc_verify" => cycle_ops = <<"read", "write">>
          /\ pc = "vc_latency" \/ CycleReturned =>
                /\ cycle_ops = <<"read", "write", "verify">>
                /\ vc.errors = Cardinality(Differing)
                /\ mismatches = 0 => Differing = {}
          /\ InCycle \/ CycleReturned => vc.cycle_timer.started_
          /\ CycleReturned =>
                /\ vc.cycle_latency_ns = now - vc.cycle_timer.start_time_
                /\ vc.cycle_latency_ns >= 0)
    /\ [][/\ pc = "rwb_loop" /\ pc' = "vc_read" =>
                vc'.cycle_timer = start(now')
          /\ InCycle => vc'.cycle_timer = vc.cycle_timer
          /\ pc = "vc_read" /\ pc' = "vc_write" => buffer' = buffer
          /\ pc = "vc_write" /\ pc' = "vc_verify" =>
                \A j \in 0..(call.buffer_size_bytes - 1) :
                    buffer'[j] = Pattern(j)
          /\ pc \in {"vc_verify", "vc_latency"} /\ pc' # pc =>
                buffer' = buffer]_vars

\* a cycle over the largest buffer has returned with one differing byte
\* counted, the clock having advanced during the cycle
C23_Witness ==
    /\ CycleReturned
    /\ call.buffer_size_bytes = ByteMask + 2
    /\ cycle_ops = <<"read", "write", "verify">>
    /\ vc.errors = 1 /\ Differing = {0}
    /\ buffer[ByteMask + 1] = 0 /\ buffer[ByteMask] = ByteMask
    /\ vc.cycle_latency_ns > 0

InSession == call.op = "run_continuous" /\ pc \notin {"idle", "returned"}

\* C24: run_continuous allocates the test buffer exactly once per invocation
\* and before the session timer is started; every run of the session is
\* executed against that buffer with the size of the call, and between the
\* allocation and the return no buffer is allocated or resized.
C24_OneBufferPerSession ==
    /\ [](/\ call.op = "run_continuous" => allocations <= 1
          /\ InSession =>
                /\ allocations = 1
                /\ DOMAIN buffer = 0..(call.buffer_size_bytes - 1)
          /\ pc = "rc_timer" =>
                /\ ~rc.continuous_timer.started_
                /\ timer_starts = 0
          /\ InSession /\ pc # "rc_timer" => rc.continuous_timer.started_
          /\ SessionDone => DOMAIN buffer = 0..(call.buffer_size_bytes - 1))
    /\ [][InSession =>
            /\ allocations' = allocations
            /\ DOMAIN buffer' = DOMAIN buffer
            /\ call' = call]_vars

\* the second run of a session is about to start on the buffer of the first
C24_Witness ==
    /\ InSession /\ pc = "rwb_entry"
    /\ rc.completed_runs = 1
    /\ allocations = 1
    /\ call.buffer_size_bytes = ByteMask + 2
    /\ DOMAIN buffer = 0..(ByteMask + 1)
    /\ buffer[ByteMask + 1] = 0 /\ buffer[1] = 1

RunTotalTimes == [j \in 1..Len(run_extremes) |-> run_extremes[j].total_time_seconds]

SessionWallTime == FromInt(now - rc.continuous_timer.start_time_)

\* C25: when run_continuous has completed at least one run, the aggregate
\* total_time_seconds is the sum of the total_time_seconds of the completed
\* runs, and the aggregate throughput is buffer_size_bytes *
\* iterations_per_run * completed_runs * 3 divided by that sum and by
\* 1024 * 1024.
C25_TotalTimeAndThroughput ==
    SessionDone /\ rc.completed_runs >= 1 =>
        LET total == RSum(RunTotalTimes)
            bytes == call.buffer_size_bytes * call.iterations
                         * rc.completed_runs * 3
        IN  /\ Len(run_extremes) = rc.completed_runs
            /\ RunTotalTimes = rc.run_total_times
            /\ ret.timing.total_time_seconds = total
            /\ ret.throughput_mbps =
                  RDiv(RDiv(FromInt(bytes), total), FromInt(BytesPerMegabyte))

\* two runs of different length whose times sum to less than the session's
\* wall time
C25_Witness ==
    /\ SessionDone /\ rc.completed_runs = 2
    /\ run_extremes[1].total_time_seconds # run_extremes[2].total_time_seconds
    /\ RLess(Zero, ret.timing.total_time_seconds)
    /\ RLess(ret.timing.total_time_seconds, SessionWallTime)
    /\ RLess(Zero, ret.throughput_mbps)

MemoryCalls == {"run", "run_continuous"}

NetworkCalls == {"network_run", "network_run_call_loop"}

Calls == MemoryCalls \cup {"cpu_run"} \cup NetworkCalls

ReturnOf(e) ==
    IF e \in MemoryCalls THEN "memory_returned"
    ELSE IF e = "cpu_run" THEN "cpu_returned" ELSE "network_returned"

Positions(events) == {k \in 1..Len(main.trace) : main.trace[k] \in events}

\* C26: in main the priority adjustment is attempted once, before every
\* benchmark; at most one memory benchmark is called, run_continuous in
\* continuous mode and run otherwise; a benchmark that was called returns
\* before anything else happens; and the memory benchmark comes before the
\* CPU benchmark, which comes before the network benchmark.
C26_BenchmarksSequenced ==
    LET t == main.trace
    IN  /\ t # <<>> => t[1] = "attempt_raise"
        /\ Cardinality(Positions({"attempt_raise"})) <= 1
        /\ main.pc # "priority" => Cardinality(Positions({"attempt_raise"})) = 1
        /\ Cardinality(Positions(MemoryCalls)) <= 1
        /\ Cardinality(Positions({"cpu_run"})) <= 1
        /\ Cardinality(Positions(NetworkCalls)) <= 1
        /\ \A k \in Positions(MemoryCalls) :
              /\ main.run_benchmark
              /\ (t[k] = "run_continuous") <=> main.continuous_mode
        /\ \A k \in Positions(Calls) :
              k < Len(t) => t[k + 1] = ReturnOf(t[k])
        /\ \A k \in Positions({"memory_returned", "cpu_returned",
                                "network_returned"}) :
              k > 1 /\ t[k - 1] \in Calls /\ t[k] = ReturnOf(t[k - 1])
        /\ \A k \in Positions({"cpu_run"}) :
              /\ \A m \in Positions(MemoryCalls) : m + 1 < k
              /\ main.run_benchmark => Positions(MemoryCalls) # {}
        /\ \A k \in Positions(NetworkCalls) :
              /\ \A m \in Positions(MemoryCalls \cup {"cpu_run"}) : m + 1 < k
              /\ main.run_benchmark => Positions(MemoryCalls) # {}
              /\ main.run_cpu_benchmark => Positions({"cpu_run"}) # {}

\* all three benchmarks were requested and main has returned
C26_Witness ==
    /\ main.pc = "exited" /\ main.exit = "EXIT_SUCCESS"
    /\ main.trace = <<"attempt_raise", "run_continuous", "memory_returned",
                      "cpu_run", "cpu_returned",
                      "network_run_call_loop", "network_returned">>

SendSucceeded ==
    /\ net.connection_successful
    /\ net.total_sent = net.payload_size_bytes
    /\ net.pc \in {"recv", "recv_check", "finish"}

\* C27: whenever the connection and the full send succeed,
\* NetworkBenchmark::run eventually returns with benchmark_successful true,
\* also when the server never sends and keeps the connection open.
C27_Original ==
    SendSucceeded ~> (net.pc = "returned" /\ net.benchmark_successful)

\* the payload was sent to a peer that keeps the connection open and sends
\* nothing; a recv() call has timed out and receive_data calls recv() again
C27_Witness ==
    /\ SendSucceeded
    /\ net.server = "silent" /\ net.socket_open
    /\ net.pc = "recv" /\ net.recv_errno = "EAGAIN"
    /\ net.total_received = 0 /\ net.payload_size_bytes > 0

\* C28: inside run_continuous every invoked run returns sample_count equal
\* to iterations_per_run, which is positive, so the branch for a run without
\* samples is never taken: the loop is left only by the duration check
\* finding the bound reached or by the run-count check finding the limit
\* reached.
C28_RunsAlwaysHaveSamples ==
    /\ [](pc = "rc_aggregate" =>
             /\ call.iterations > 0
             /\ rc.run_results.timing.sample_count = call.iterations
             /\ Len(rwb.latencies) = call.iterations)
    /\ [][pc # "rc_final" /\ pc' = "rc_final" =>
             \/ /\ pc = "rc_loop"
                /\ DurationConfigured(call.max_duration_seconds)
                /\ DurationReached(rc'.elapsed, call.max_duration_seconds)
             \/ /\ pc = "rc_check_runs"
                /\ RunLimitReached(call.max_runs, rc.completed_runs)]_vars

\* the second run of a session has returned its samples to run_continuous
C28_Witness ==
    /\ pc = "rc_aggregate"
    /\ rc.completed_runs = 1
    /\ call.iterations = MaxIterations
    /\ rc.run_results.timing.sample_count = MaxIterations

\* C29: whenever run_with_buffer or run_continuous computes throughput_mbps,
\* the elapsed seconds it divides by are strictly positive, for every
\* behaviour of the monotonic clock.
C29_Original ==
    /\ pc = "rc_aggregate" =>
          RLess(Zero, rc.run_results.timing.total_time_seconds)
    /\ Returned /\ call.op = "run" /\ ValidSizes =>
          RLess(Zero, ret.timing.total_time_seconds)
    /\ SessionDone /\ HasCompletedRuns(rc.completed_runs) =>
          RLess(Zero, ret.timing.total_time_seconds)

\* a run whose two readings of the clock gave the same instant has returned
\* the quotient of a positive byte count by zero
C29_Witness ==
    /\ Returned /\ call.op = "run" /\ ValidSizes
    /\ ret.timing.total_time_seconds = Zero
    /\ ret.throughput_mbps.den = 0 /\ ret.throughput_mbps.num > 0

PatternWritten ==
    \A j \in 0..(call.buffer_size_bytes - 1) : buffer[j] = Pattern(j)

\* C30: with memory that stores what is written, every verify_cycle of a
\* run, the first included, reports 0 errors whatever the buffer held when
\* the run was entered: the read pass leaves the buffer as it was, and
\* verify_pattern counts nothing in what write_pattern wrote over the same
\* size.
C30_FirstCycleClean ==
    /\ [](/\ pc \in {"vc_read", "vc_write"} /\ rwb.i = 0 =>
                buffer = entry_buffer
          /\ pc = "vc_verify" =>
                /\ PatternWritten
                /\ verify_pattern(buffer, call.buffer_size_bytes) = 0
          /\ pc \in {"vc_latency", "rwb_accumulate"} =>
                vc.errors = 0 /\ PatternWritten
          /\ Returned =>
                ret.verification_errors = 0 /\ ret.verification_passed)
    /\ [][/\ pc = "vc_read" /\ pc' = "vc_write" => buffer' = buffer
          /\ pc = "vc_write" /\ pc' = "vc_verify" =>
                buffer' = write_pattern(buffer, call.buffer_size_bytes)
          /\ pc = "vc_verify" /\ pc' = "vc_latency" =>
                vc'.errors = verify_pattern(
                    write_pattern(entry_buffer, call.buffer_size_bytes),
                    call.buffer_size_bytes)]_vars

\* the first cycle of a run entered with a buffer that held the pattern in
\* no byte has returned 0
C30_Witness ==
    /\ pc = "rwb_accumulate" /\ rwb.i = 0
    /\ call.buffer_size_bytes = MaxAnyBuffer
    /\ \A j \in DOMAIN entry_buffer : entry_buffer[j] # Pattern(j)
    /\ entry_buffer[0] = ByteMask
    /\ vc.errors = 0 /\ PatternWritten

====
